---- MODULE Spec2Model ----
(***************************************************************************)
(* A model of ptx_tests: the command-line driver (src/main.rs), the test   *)
(* registry and the two source backends (src/testcase/mod.rs), the sine    *)
(* test (src/testcase/sin.rs) and the 16-bit shift tests                   *)
(* (src/testcase/shift.rs).                                                *)
(*                                                                         *)
(* Three specifications share the module:                                  *)
(*   Spec       one invocation of the program (list or run)                *)
(*   SinSpec    Sin::generate and Sin::host_verify on sampled f32 values   *)
(*   ShiftSpec  Shl / Shr generate and host_verify on sampled u16 values   *)
(***************************************************************************)
EXTENDS Integers, Sequences, FiniteSets, TLC

VARIABLES
    \* ---- one invocation of the program (Spec)
    args,       \* the parsed Arguments: List, or Run with an optional filter
    backend,    \* the fixture the tests run with: TestFixture<(Cuda,)> or <(Cuda, Nvrtc)>
    registry,   \* the vec! of tests() before it is sorted, as test names
    tests,      \* run's local `tests`
    pc,         \* position in main / run / the running test
    i,          \* index of the loop over `tests` (1-based)
    failures,   \* run's local `failures`
    stdout,     \* lines printed with println!
    stderr,     \* lines printed with eprintln!
    proc,       \* "running", "returned" (run returned, exit(run)), "exited" (process::exit in a test), "panicked"
    exitCode,   \* the process exit status, -1 while running
    program,    \* the nvrtcProgram handle of the running build step: "null", "live", "destroyed"
    hostBufs,   \* host buffers of the running build step that are allocated and not yet freed
    buildEnded, \* how the last Compiled build step was left: "none", "returned", "exited", "panicked"
    rejected,   \* names of the tests whose source nvrtcCompileProgram rejected
    k,          \* scan index of the running test
    evaluated,  \* inputs of the running test handed to the verifier so far
    outcome,    \* the Result the running test returned: "none", "Ok", "Mismatch", "Miscompile"
    errName,    \* the name carried by TestError::Miscompile
    done,       \* finished tests: [name, outcome, evaluated]
    executed,   \* names of the tests whose closure was called, in call order
    \* ---- the sine test (SinSpec)
    sinPc,      \* position in the sine test's step for one index
    ftz,        \* Sin.ftz
    sinIdx,     \* the scan index handed to generate, -1 when host_verify is called on its own
    sinOvf,     \* an integer operation of generate overflowed
    sinInput,   \* the f32 input
    sinOutput,  \* the f32 the device returned
    sinResult,  \* host_verify's Result
    \* ---- the shift tests (ShiftSpec)
    shPc,       \* position in a shift test's step for one index
    shOp,       \* which test: "shl_b16", "shr_u16", "shr_s16"
    layout,     \* which half of the index the build puts in the tuple's first field
    shIdx,      \* the 32-bit scan index, as its two 16-bit halves
    shInput,    \* the (value, shift) input
    shOutput,   \* the 16 bits the device returned
    shResult    \* host_verify's Result

runVars == <<args, backend, registry, tests, pc, i, failures, stdout, stderr, proc,
             exitCode, program, hostBufs, buildEnded, rejected, k, evaluated,
             outcome, errName, done, executed>>
sinVars == <<sinPc, ftz, sinIdx, sinOvf, sinInput, sinOutput, sinResult>>
shiftVars == <<shPc, shOp, layout, shIdx, shInput, shOutput, shResult>>
vars == <<runVars, sinVars, shiftVars>>

-----------------------------------------------------------------------------
(* Bounds of the model *)

\* at most this many tests are registered
MaxTests == 3
\* every test's domain has this many indices (the code's domains have up to 2^32)
MaxDomain == 2

-----------------------------------------------------------------------------
(* Test names: strings as sequences of bytes *)

Name_shl_b16 == <<115, 104, 108, 95, 98, 49, 54>>
Name_shr_u16 == <<115, 104, 114, 95, 117, 49, 54>>
Name_shr_s16 == <<115, 104, 114, 95, 115, 49, 54>>
Name_sin_approx == <<115, 105, 110, 95, 97, 112, 112, 114, 111, 120>>
Name_sin_approx_ftz == Name_sin_approx \o <<95, 102, 116, 122>>

\* the names src/ shows: shift::all_tests() and sin::all_tests(), in the order pushed
KnownNames == <<Name_shl_b16, Name_shr_u16, Name_shr_s16, Name_sin_approx, Name_sin_approx_ftz>>

Range(s) == {s[j] : j \in DOMAIN s}

\* String's Ord: byte-wise lexicographic, a proper prefix first
RECURSIVE StrLess(_, _)
StrLess(a, b) ==
    IF b = <<>> THEN FALSE
    ELSE IF a = <<>> THEN TRUE
    ELSE IF Head(a) < Head(b) THEN TRUE
    ELSE IF Head(a) > Head(b) THEN FALSE
    ELSE StrLess(Tail(a), Tail(b))

\* insertion of one name into a vec already sorted by name
RECURSIVE InsertByName(_, _)
InsertByName(n, s) ==
    IF s = <<>> THEN <<n>>
    ELSE IF StrLess(n, Head(s)) THEN <<n>> \o s
    ELSE <<Head(s)>> \o InsertByName(n, Tail(s))

RECURSIVE SortRec(_)
SortRec(s) == IF s = <<>> THEN <<>> ELSE InsertByName(Head(s), SortRec(Tail(s)))

\* a sort that leaves the vec as it was registered
SortByName_Unsorted(s) == s

\* tests.sort_unstable_by_key(|t| t.name.clone())
SortByName(s) == SortRec(s)

\* tests(): the registered tests, sorted by name
Tests(reg) == SortByName(reg)

\* Regex::is_match for a literal pattern: the pattern occurs somewhere in the name
IsMatch(pat, name) ==
    \E p \in 0..(Len(name) - Len(pat)) : SubSeq(name, p + 1, p + Len(pat)) = pat

\* tests.into_iter().filter(|t| re.is_match(&t.name)).collect()
FilterTests(pat, s) == SelectSeq(s, LAMBDA n : IsMatch(pat, n))

NoFilter == [given |-> FALSE, valid |-> TRUE, pat |-> <<>>]
\* the filters tried: "shr", "sin", "16", and one that Regex::new rejects
Filters == {NoFilter,
            [given |-> TRUE, valid |-> TRUE, pat |-> <<115, 104, 114>>],
            [given |-> TRUE, valid |-> TRUE, pat |-> <<115, 105, 110>>],
            [given |-> TRUE, valid |-> TRUE, pat |-> <<49, 54>>],
            [given |-> TRUE, valid |-> FALSE, pat |-> <<40>>]}

\* the registries tried: any choice of at most MaxTests distinct known names, in any order
Registries ==
    UNION {{s \in [1..n -> Range(KnownNames)] : \A a, b \in 1..n : a # b => s[a] # s[b]}
           : n \in 0..MaxTests}

\* failures += 1 in the Mismatch and the Miscompile arm, nothing in the Ok arm
FailuresAfter_MismatchOnly(f, o) == IF o = "Mismatch" THEN f + 1 ELSE f

FailuresAfter(f, o) == IF o = "Ok" THEN f ELSE f + 1

\* the line each arm of the match prints
ResultLine(name, o, ename) ==
    CASE o = "Ok" -> [name |-> name, kind |-> "OK"]
      [] o = "Mismatch" -> [name |-> name, kind |-> "FAIL_Input"]
      [] OTHER -> [name |-> ename, kind |-> "FAIL_Compilation_mismatch"]

-----------------------------------------------------------------------------
(* Values of the variables a specification does not use *)

RunIdle ==
    /\ args = [cmd |-> "None", filter |-> NoFilter]
    /\ backend = "Direct"
    /\ registry = <<>>
    /\ tests = <<>>
    /\ pc = "idle"
    /\ i = 1
    /\ failures = 0
    /\ stdout = <<>>
    /\ stderr = <<>>
    /\ proc = "idle"
    /\ exitCode = -1
    /\ program = "null"
    /\ hostBufs = {}
    /\ buildEnded = "none"
    /\ rejected = {}
    /\ k = 0
    /\ evaluated = 0
    /\ outcome = "none"
    /\ errName = <<>>
    /\ done = <<>>
    /\ executed = <<>>

-----------------------------------------------------------------------------
(* One invocation of the program: main and run of src/main.rs *)

\* the state main starts in, for the arguments, the registry and the fixture tried
RunInit ==
    /\ args \in {[cmd |-> "List", filter |-> NoFilter]}
                \cup {[cmd |-> "Run", filter |-> f] : f \in Filters}
    /\ backend \in {"Direct", "Compiled"}
    /\ registry \in Registries
    /\ tests = <<>>
    /\ pc = "main"
    /\ i = 1
    /\ failures = 0
    /\ stdout = <<>>
    /\ stderr = <<>>
    /\ proc = "running"
    /\ exitCode = -1
    /\ program = "null"
    /\ hostBufs = {}
    /\ buildEnded = "none"
    /\ rejected = {}
    /\ k = 0
    /\ evaluated = 0
    /\ outcome = "none"
    /\ errName = <<>>
    /\ done = <<>>
    /\ executed = <<>>

\* an unwrap() of an Err: the thread panics and the process ends with status 101
Panic ==
    /\ proc' = "panicked"
    /\ exitCode' = 101
    /\ pc' = "end"

\* run, lines 46-48: failures = 0, tests = tests(), sorted by name once more
Run_SortTests ==
    /\ pc = "main"
    /\ failures' = 0
    /\ tests' = SortByName(Tests(registry))
    /\ i' = 1
    /\ pc' = IF args.cmd = "List" THEN "list" ELSE "filter"
    /\ UNCHANGED <<sinVars, shiftVars>>
    /\ UNCHANGED <<args, backend, registry, stdout, stderr, proc, exitCode, program,
                   hostBufs, buildEnded, rejected, k, evaluated, outcome, errName,
                   done, executed>>

\* the List arm: one println! per test
Run_ListPrint ==
    /\ pc = "list"
    /\ i <= Len(tests)
    /\ stdout' = Append(stdout, [name |-> tests[i], kind |-> "name"])
    /\ i' = i + 1
    /\ UNCHANGED <<sinVars, shiftVars>>
    /\ UNCHANGED <<args, backend, registry, tests, pc, failures, stderr, proc, exitCode,
                   program, hostBufs, buildEnded, rejected, k, evaluated, outcome,
                   errName, done, executed>>

\* the Run arm, lines 56-59: Regex::new(..).unwrap(), then the filter
Run_Filter ==
    /\ pc = "filter"
    /\ \/ /\ ~args.filter.given
          /\ pc' = "cuda"
          /\ UNCHANGED <<tests, proc, exitCode>>
       \/ /\ args.filter.given
          /\ args.filter.valid
          /\ tests' = FilterTests(args.filter.pat, tests)
          /\ pc' = "cuda"
          /\ UNCHANGED <<proc, exitCode>>
       \/ /\ args.filter.given
          /\ ~args.filter.valid
          /\ Panic
          /\ UNCHANGED tests
    /\ UNCHANGED <<sinVars, shiftVars>>
    /\ UNCHANGED <<args, backend, registry, i, failures, stdout, stderr, program,
                   hostBufs, buildEnded, rejected, k, evaluated, outcome, errName,
                   done, executed>>

\* lines 60-63: Cuda::new, cuInit(0).unwrap(), cuCtxCreate_v2(..).unwrap()
Run_CudaInit ==
    /\ pc = "cuda"
    /\ \/ /\ pc' = "loop"
          /\ UNCHANGED <<proc, exitCode>>
       \/ Panic
    /\ UNCHANGED <<sinVars, shiftVars>>
    /\ UNCHANGED <<args, backend, registry, tests, i, failures, stdout, stderr, program,
                   hostBufs, buildEnded, rejected, k, evaluated, outcome, errName,
                   done, executed>>

\* line 65: (t.test)(&cuda) is called for the next test
Run_CallTest ==
    /\ pc = "loop"
    /\ i <= Len(tests)
    /\ executed' = Append(executed, tests[i])
    /\ k' = 0
    /\ evaluated' = 0
    /\ outcome' = "none"
    /\ errName' = <<>>
    /\ program' = "null"
    /\ hostBufs' = {}
    /\ buildEnded' = "none"
    /\ pc' = "prepare"
    /\ UNCHANGED <<sinVars, shiftVars>>
    /\ UNCHANGED <<args, backend, registry, tests, i, failures, stdout, stderr, proc,
                   exitCode, rejected, done>>

\* lines 66-78: the match on the test's Result
Run_Report ==
    /\ pc = "report"
    /\ stdout' = Append(stdout, ResultLine(tests[i], outcome, errName))
    /\ failures' = FailuresAfter(failures, outcome)
    /\ done' = Append(done, [name |-> tests[i], outcome |-> outcome, evaluated |-> evaluated])
    /\ i' = i + 1
    /\ pc' = "loop"
    /\ UNCHANGED <<sinVars, shiftVars>>
    /\ UNCHANGED <<args, backend, registry, tests, stderr, proc, exitCode, program,
                   hostBufs, buildEnded, rejected, k, evaluated, outcome, errName,
                   executed>>

\* line 82 and main, line 42: run returns failures, main exits with it
Run_Return ==
    /\ pc \in {"list", "loop"}
    /\ i > Len(tests)
    /\ proc' = "returned"
    /\ exitCode' = failures
    /\ pc' = "end"
    /\ UNCHANGED <<sinVars, shiftVars>>
    /\ UNCHANGED <<args, backend, registry, tests, i, failures, stdout, stderr, program,
                   hostBufs, buildEnded, rejected, k, evaluated, outcome, errName,
                   done, executed>>

-----------------------------------------------------------------------------
(* The build step of a test: prepare_test_source of src/testcase/mod.rs *)

\* TestFixture<(Cuda,)>::prepare_test_source: the source is formatted, nothing is compiled
Direct_PrepareSource ==
    /\ pc = "prepare"
    /\ backend = "Direct"
    /\ pc' = "load"
    /\ UNCHANGED <<sinVars, shiftVars>>
    /\ UNCHANGED <<args, backend, registry, tests, i, failures, stdout, stderr, proc,
                   exitCode, program, hostBufs, buildEnded, rejected, k, evaluated,
                   outcome, errName, done, executed>>

\* line 120: nvrtcCreateProgram(..).unwrap()
Nvrtc_CreateProgram ==
    /\ pc = "prepare"
    /\ backend = "Compiled"
    /\ \/ /\ program' = "live"
          /\ pc' = "compile"
          /\ UNCHANGED <<proc, exitCode, buildEnded>>
       \/ /\ Panic
          /\ buildEnded' = "panicked"
          /\ UNCHANGED program
    /\ UNCHANGED <<sinVars, shiftVars>>
    /\ UNCHANGED <<args, backend, registry, tests, i, failures, stdout, stderr, hostBufs,
                   rejected, k, evaluated, outcome, errName, done, executed>>

\* line 121: nvrtcCompileProgram accepts the source or rejects it
Nvrtc_CompileProgram ==
    /\ pc = "compile"
    /\ \/ /\ pc' = "get_ptx"
          /\ UNCHANGED rejected
       \/ /\ pc' = "compile_failed"
          /\ rejected' = rejected \cup {tests[i]}
    /\ UNCHANGED <<sinVars, shiftVars>>
    /\ UNCHANGED <<args, backend, registry, tests, i, failures, stdout, stderr, proc,
                   exitCode, program, hostBufs, buildEnded, k, evaluated, outcome,
                   errName, done, executed>>

\* the state in which the failure path of lines 123-145 leaves the step
CompileFailedExit ==
    /\ stderr' = stderr \o <<"NVRTC error", "Compilation produced the following log">>
    /\ hostBufs' = {}
    /\ UNCHANGED program
    /\ proc' = "exited"
    /\ exitCode' = 1
    /\ buildEnded' = "exited"
    /\ pc' = "end"

\* lines 123-145: the error string and the log go to stderr, the log buffer is freed,
\* and std::process::exit(1); the two unwrap()s on the way may panic
Nvrtc_CompileFailed ==
    /\ pc = "compile_failed"
    /\ \/ CompileFailedExit
       \/ /\ Panic
          /\ stderr' = Append(stderr, "NVRTC error")
          /\ \E leaked \in {{}, {"log"}} : hostBufs' = leaked
          /\ buildEnded' = "panicked"
          /\ UNCHANGED program
    /\ UNCHANGED <<sinVars, shiftVars>>
    /\ UNCHANGED <<args, backend, registry, tests, i, failures, stdout, rejected, k,
                   evaluated, outcome, errName, done, executed>>

\* lines 147-162: the PTX is copied out, the program destroyed, the buffer freed;
\* nvrtcGetPTXSize, nvrtcGetPTX and nvrtcDestroyProgram are each unwrap()ped
Nvrtc_GetPTX ==
    /\ pc = "get_ptx"
    /\ \/ /\ program' = "destroyed"
          /\ hostBufs' = {}
          /\ buildEnded' = "returned"
          /\ pc' = "load"
          /\ UNCHANGED <<proc, exitCode>>
       \/ /\ Panic
          /\ \E leaked \in {{}, {"ptx"}} : hostBufs' = leaked
          /\ buildEnded' = "panicked"
          /\ UNCHANGED program
    /\ UNCHANGED <<sinVars, shiftVars>>
    /\ UNCHANGED <<args, backend, registry, tests, i, failures, stdout, stderr, rejected,
                   k, evaluated, outcome, errName, done, executed>>

-----------------------------------------------------------------------------
(* The rest of a test: load the module, scan the domain *)

\* the module is loaded from the prepared source; a failure is Miscompile(name)
Test_LoadModule ==
    /\ pc = "load"
    /\ \/ /\ pc' = "scan"
          /\ UNCHANGED <<outcome, errName>>
       \/ /\ outcome' = "Miscompile"
          /\ errName' = tests[i]
          /\ pc' = "report"
    /\ UNCHANGED <<sinVars, shiftVars>>
    /\ UNCHANGED <<args, backend, registry, tests, i, failures, stdout, stderr, proc,
                   exitCode, program, hostBufs, buildEnded, rejected, k, evaluated,
                   done, executed>>

\* one index of the domain: generate, launch, host_verify; the first rejection ends the scan
Test_ScanStep ==
    /\ pc = "scan"
    /\ k < MaxDomain
    /\ evaluated' = evaluated + 1
    /\ \/ /\ k' = k + 1
          /\ UNCHANGED <<outcome, pc>>
       \/ /\ outcome' = "Mismatch"
          /\ pc' = "report"
          /\ UNCHANGED k
    /\ UNCHANGED <<sinVars, shiftVars>>
    /\ UNCHANGED <<args, backend, registry, tests, i, failures, stdout, stderr, proc,
                   exitCode, program, hostBufs, buildEnded, rejected, errName, done,
                   executed>>

\* the domain is exhausted: Ok(())
Test_ScanDone ==
    /\ pc = "scan"
    /\ k = MaxDomain
    /\ outcome' = "Ok"
    /\ pc' = "report"
    /\ UNCHANGED <<sinVars, shiftVars>>
    /\ UNCHANGED <<args, backend, registry, tests, i, failures, stdout, stderr, proc,
                   exitCode, program, hostBufs, buildEnded, rejected, k, evaluated,
                   errName, done, executed>>

-----------------------------------------------------------------------------
(* f32 values: the 32 bits as sign, biased exponent and mantissa *)

Pow2(n) == 2 ^ n

F32(s, e, m) == [s |-> s, e |-> e, m |-> m]

\* mem::transmute::<u32, f32> of a value below 2^31
F32FromBits(b) == F32((b \div Pow2(23)) \div 256, (b \div Pow2(23)) % 256, b % Pow2(23))

IsNan(f) == f.e = 255 /\ f.m # 0
IsInfinite(f) == f.e = 255 /\ f.m = 0
IsSubnormal(f) == f.e = 0 /\ f.m # 0
IsZero(f) == f.e = 0 /\ f.m = 0
IsSignNegative(f) == f.s = 1
IsSignPositive(f) == f.s = 0

\* the == of f32, which a literal pattern of a match uses
FloatEq(a, b) == ~IsNan(a) /\ ~IsNan(b) /\ (a = b \/ (IsZero(a) /\ IsZero(b)))

F32_NAN == F32(0, 255, Pow2(22))
F32_INFINITY == F32(0, 255, 0)
F32_NEG_INFINITY == F32(1, 255, 0)
F32_ZERO == F32(0, 0, 0)
F32_NEG_ZERO == F32(1, 0, 0)
F32_ONE == F32(0, 127, 0)
F32_MIN_POSITIVE == F32(0, 1, 0)
F32_FRAC_PI_4 == F32(0, 126, 4788187)
F32_FRAC_PI_2 == F32(0, 127, 4788187)
\* common::MAX_POSITIVE_SUBNORMAL and common::MAX_NEGATIVE_SUBNORMAL
MAX_POSITIVE_SUBNORMAL == F32(0, 0, Pow2(23) - 1)
MAX_NEGATIVE_SUBNORMAL == F32(1, 0, Pow2(23) - 1)

\* common::flush_to_zero_f32: a subnormal becomes the zero of its sign when flush is set
flush_to_zero_f32(f, flush) ==
    IF flush /\ IsSubnormal(f) THEN F32(f.s, 0, 0) ELSE f

-----------------------------------------------------------------------------
(* The sine test: src/testcase/sin.rs *)

None == [some |-> FALSE]
Some(v) == [some |-> TRUE, val |-> v]
Ok == [ok |-> TRUE]
Err(v) == [ok |-> FALSE, expected |-> v]

\* the arms in which the sign of a zero input is lost
sin_approx_special_ZeroFirst(input) ==
    IF FloatEq(input, F32_NEG_INFINITY) THEN Some(F32_NAN)
    ELSE IF FloatEq(input, F32_ZERO) THEN Some(F32_ZERO)
    ELSE IF IsSubnormal(input) /\ IsSignNegative(input) THEN Some(F32_NEG_ZERO)
    ELSE IF IsSubnormal(input) /\ IsSignPositive(input) THEN Some(F32_ZERO)
    ELSE IF FloatEq(input, F32_INFINITY) THEN Some(F32_NAN)
    ELSE IF IsNan(input) THEN Some(F32_NAN)
    ELSE None

\* sin_approx_special: the match arms, tried in order
sin_approx_special(input) ==
    IF FloatEq(input, F32_NEG_INFINITY) THEN Some(F32_NAN)
    ELSE IF IsSubnormal(input) /\ IsSignNegative(input) THEN Some(F32_NEG_ZERO)
    ELSE IF input = F32_NEG_ZERO THEN Some(F32_NEG_ZERO)
    ELSE IF FloatEq(input, F32_ZERO) THEN Some(F32_ZERO)
    ELSE IF IsSubnormal(input) /\ IsSignPositive(input) THEN Some(F32_ZERO)
    ELSE IF FloatEq(input, F32_INFINITY) THEN Some(F32_NAN)
    ELSE IF IsNan(input) THEN Some(F32_NAN)
    ELSE None

\* sin_host(input) as f32, for the inputs of the tolerance rule that are tried:
\* sin(2^-126) = 2^-126, sin(pi/4) = 0x3F3504F3, sin(1) = 0x3F576AA4, and 1 for pi/2
\* and for the f32 just below it
sin_host_f32(input) ==
    CASE input = F32_MIN_POSITIVE -> F32_MIN_POSITIVE
      [] input = F32_FRAC_PI_4 -> F32(0, 126, 3474675)
      [] input = F32_ONE -> F32(0, 126, 5728932)
      [] input = F32(0, 127, 4788186) -> F32_ONE
      [] input = F32_FRAC_PI_2 -> F32_ONE

\* APPROX_TOLERANCE = 2^-20.9 is 8.574 * 2^-24: of two multiples of 2^-24, the
\* difference is within the tolerance iff it is at most 8 * 2^-24
APPROX_TOLERANCE_Q24 == 8

\* the magnitude of a finite f32 in units of 2^-24, rounded down; exact from 2^-1 up,
\* and 2^30 stands for everything from 2^5 up
MagnitudeQ24(f) ==
    IF f.e = 0 THEN 0
    ELSE IF f.e < 102 THEN 0
    ELSE IF f.e < 126 THEN (Pow2(23) + f.m) \div Pow2(126 - f.e)
    ELSE IF f.e < 132 THEN (Pow2(23) + f.m) * Pow2(f.e - 126)
    ELSE Pow2(30)

ValueQ24(f) == IF f.s = 1 THEN 0 - MagnitudeQ24(f) ELSE MagnitudeQ24(f)

Abs(x) == IF x < 0 THEN 0 - x ELSE x

\* (output as f64 - result_f32 as f64).abs() <= APPROX_TOLERANCE; a NaN or infinite
\* difference is not within it
WithinTolerance(output, result) ==
    /\ ~IsNan(output)
    /\ ~IsInfinite(output)
    /\ Abs(ValueQ24(output) - ValueQ24(result)) <= APPROX_TOLERANCE_Q24

\* a verifier that also flushes the device output before it compares
host_verify_FlushOutput(flush, input0, output0) ==
    LET input == flush_to_zero_f32(input0, flush)
        output == flush_to_zero_f32(output0, flush)
        special == sin_approx_special(input)
    IN  IF special.some
        THEN LET expected == flush_to_zero_f32(special.val, flush)
             IN  IF (IsNan(expected) /\ IsNan(output)) \/ expected = output
                 THEN Ok ELSE Err(expected)
        ELSE LET precise == sin_host_f32(input)
                 result_f32 == flush_to_zero_f32(precise, flush)
             IN  IF WithinTolerance(output, result_f32) THEN Ok ELSE Err(precise)

\* Sin::host_verify
host_verify(flush, input0, output) ==
    LET input == flush_to_zero_f32(input0, flush)
        special == sin_approx_special(input)
    IN  IF special.some
        THEN LET expected == flush_to_zero_f32(special.val, flush)
             IN  IF (IsNan(expected) /\ IsNan(output)) \/ expected = output
                 THEN Ok ELSE Err(expected)
        ELSE LET precise == sin_host_f32(input)
                 result_f32 == flush_to_zero_f32(precise, flush)
             IN  IF WithinTolerance(output, result_f32) THEN Ok ELSE Err(precise)

\* transmute::<_, u32>(RANGE_MIN) and transmute::<_, u32>(RANGE_MAX)
RANGE_MIN_BITS == 0
RANGE_MAX_BITS == 1070141403

\* the indices past RANGE_MAX that MAX_VALUE adds
EXTRA_INDICES == 36

\* Sin::MAX_VALUE
SIN_MAX_VALUE == (RANGE_MAX_BITS - RANGE_MIN_BITS) + EXTRA_INDICES

\* a u32 result that does not fit: below 0, or 2^32 and above
U32Overflows(x) == x < 0 \/ x \div Pow2(16) >= Pow2(16)

\* the table of edge cases, `input - max_number` => value
EdgeCase(n) ==
    CASE n = 1 -> F32_NEG_INFINITY
      [] n = 2 -> MAX_NEGATIVE_SUBNORMAL
      [] n = 3 -> F32_NEG_ZERO
      [] n = 4 -> F32_ZERO
      [] n = 5 -> MAX_POSITIVE_SUBNORMAL
      [] n = 6 -> F32_INFINITY
      [] n = 7 -> F32_NAN
      [] OTHER -> F32_ZERO

\* a generate whose comparison takes the index of RANGE_MAX itself for an edge case
SinGenerate_OffByOne(input) ==
    IF input >= RANGE_MAX_BITS
    THEN [val |-> EdgeCase(input - RANGE_MAX_BITS),
          ovf |-> U32Overflows(input - RANGE_MAX_BITS)]
    ELSE [val |-> F32FromBits(input + RANGE_MIN_BITS),
          ovf |-> U32Overflows(input + RANGE_MIN_BITS)]

\* Sin::generate, with whether its subtraction or addition overflowed
SinGenerate(input) ==
    IF input > RANGE_MAX_BITS
    THEN [val |-> EdgeCase(input - RANGE_MAX_BITS),
          ovf |-> U32Overflows(input - RANGE_MAX_BITS)]
    ELSE [val |-> F32FromBits(input + RANGE_MIN_BITS),
          ovf |-> U32Overflows(input + RANGE_MIN_BITS)]

\* the indices tried: the ends and some points of the contiguous range, and every
\* index past it
SinIndices ==
    {0, 1, Pow2(23) - 1, Pow2(23), 1061752795, 1065353216, RANGE_MAX_BITS - 1, RANGE_MAX_BITS}
    \cup {j \in (RANGE_MAX_BITS + 1)..(RANGE_MAX_BITS + EXTRA_INDICES) : j < SIN_MAX_VALUE}

\* the inputs host_verify is tried on by itself: the special values in both signs and
\* several NaN patterns, and the inputs of the tolerance rule
SinInputs ==
    {F32_NEG_INFINITY, F32_INFINITY, F32_NAN, F32(1, 255, 1), F32(0, 255, 1),
     F32_ZERO, F32_NEG_ZERO, F32(0, 0, 1), F32(1, 0, 1),
     MAX_POSITIVE_SUBNORMAL, MAX_NEGATIVE_SUBNORMAL,
     F32_MIN_POSITIVE, F32_FRAC_PI_4, F32_ONE, F32_FRAC_PI_2}

\* the outputs a device is tried with
SinOutputs ==
    {F32_ZERO, F32_NEG_ZERO, F32(0, 0, 1), F32(1, 0, 1),
     MAX_POSITIVE_SUBNORMAL, MAX_NEGATIVE_SUBNORMAL, F32_MIN_POSITIVE,
     F32_NAN, F32(1, 255, 1), F32_INFINITY, F32_NEG_INFINITY,
     F32(0, 126, 3474675), F32(0, 126, 3474675 + 8), F32(0, 126, 3474675 + 9),
     F32(0, 126, 3474675 - 8), F32(0, 126, 3474675 - 9),
     F32(0, 126, 5728932), F32_ONE, F32(0, 126, Pow2(23) - 8), F32(0, 126, Pow2(23) - 9),
     F32(1, 126, 3474675), F32(0, 128, 0)}

SinIdle ==
    /\ sinPc = "idle"
    /\ ftz = FALSE
    /\ sinIdx = -1
    /\ sinOvf = FALSE
    /\ sinInput = F32_ZERO
    /\ sinOutput = F32_ZERO
    /\ sinResult = Ok

SinInit ==
    /\ sinPc = "start"
    /\ ftz \in BOOLEAN
    /\ sinIdx \in SinIndices \cup {-1}
    /\ sinOvf = FALSE
    /\ sinInput = F32_ZERO
    /\ sinOutput = F32_ZERO
    /\ sinResult = Ok

\* the scan's step for one index: the input is generated from the index
Sin_Generate ==
    /\ sinPc = "start"
    /\ sinIdx >= 0
    /\ sinInput' = SinGenerate(sinIdx).val
    /\ sinOvf' = SinGenerate(sinIdx).ovf
    /\ sinPc' = "generated"
    /\ UNCHANGED <<ftz, sinIdx, sinOutput, sinResult, runVars, shiftVars>>

\* host_verify called on an input of its own
Sin_PickInput ==
    /\ sinPc = "start"
    /\ sinIdx = -1
    /\ sinInput' \in SinInputs
    /\ sinPc' = "generated"
    /\ UNCHANGED <<ftz, sinIdx, sinOvf, sinOutput, sinResult, runVars, shiftVars>>

\* the device returns some f32
Sin_Launch ==
    /\ sinPc = "generated"
    /\ sinOutput' \in SinOutputs
    /\ sinPc' = "launched"
    /\ UNCHANGED <<ftz, sinIdx, sinOvf, sinInput, sinResult, runVars, shiftVars>>

\* host_verify(input, output)
Sin_HostVerify ==
    /\ sinPc = "launched"
    /\ sinResult' = host_verify(ftz, sinInput, sinOutput)
    /\ sinPc' = "verified"
    /\ UNCHANGED <<ftz, sinIdx, sinOvf, sinInput, sinOutput, runVars, shiftVars>>

-----------------------------------------------------------------------------
(* The 16-bit shift tests: src/testcase/shift.rs *)

\* an i16 from its 16 bits, and back
ToSigned16(v) == IF v >= Pow2(15) THEN v - Pow2(16) ELSE v
FromSigned16(x) == IF x < 0 THEN x + Pow2(16) ELSE x

\* value << shift on u16, for shift < 16: the bits shifted out are dropped
Shl16(value, shift) == (value * Pow2(shift)) % Pow2(16)

\* value.unsigned_shr(n) on u16, for n < 16
UnsignedShr16(value, n) == value \div Pow2(n)

\* value.signed_shr(n) on i16, for n < 16: the sign bit is shifted in
SignedShr16(value, n) == FromSigned16(ToSigned16(value) \div Pow2(n))

\* Shl::host_verify's expected
ShlExpected(value, shift) == IF shift >= 16 THEN 0 ELSE Shl16(value, shift)

\* an expected value that is 0 for every shift of 16 and more, signed or not
ShrExpected_ZeroFill(signed, value, shift) ==
    IF shift >= 16 THEN 0
    ELSE IF signed THEN SignedShr16(value, shift)
    ELSE UnsignedShr16(value, shift)

\* Shr<T>::host_verify's expected
ShrExpected(signed, value, shift) ==
    IF shift >= 16
    THEN IF signed THEN SignedShr16(value, 15) ELSE 0
    ELSE IF signed THEN SignedShr16(value, shift)
    ELSE UnsignedShr16(value, shift)

\* T::signed() of the test's scalar
IsSignedOp(op) == op = "shr_s16"

ShiftExpected(op, input) ==
    IF op = "shl_b16" THEN ShlExpected(input[1], input[2])
    ELSE ShrExpected(IsSignedOp(op), input[1], input[2])

\* Shl::host_verify and Shr<T>::host_verify
shift_host_verify(op, input, output) ==
    LET expected == ShiftExpected(op, input)
    IN  IF expected = output THEN Ok ELSE Err(expected)

\* a generate that keeps only the low four bits of the shift count
ShiftGenerate_MaskedShift(lay, idx) ==
    IF lay = "low_first" THEN <<idx.lo, idx.hi % 16>> ELSE <<idx.hi, idx.lo % 16>>

\* generate: mem::transmute of the index to the pair; which half of the index is the
\* tuple's first field is the build's choice (field order, byte order)
ShiftGenerate(lay, idx) ==
    IF lay = "low_first" THEN <<idx.lo, idx.hi>> ELSE <<idx.hi, idx.lo>>

ShiftOps == {"shl_b16", "shr_u16", "shr_s16"}
Layouts == {"low_first", "high_first"}

\* the 16-bit values tried, as values and as shift counts
U16Samples == {0, 1, 15, 16, 17, 20, 4660, 32767, 32768, 65535}

\* the indices tried: the u32 whose halves are sampled values
ShiftIndices == [hi : U16Samples, lo : U16Samples]

\* the outputs a device is tried with: the sampled values, and what a device that
\* takes the shift count modulo 16 computes
ShiftOutputs(input) ==
    U16Samples \cup {Shl16(input[1], input[2] % 16),
                     UnsignedShr16(input[1], input[2] % 16),
                     SignedShr16(input[1], input[2] % 16)}

ShiftIdle ==
    /\ shPc = "idle"
    /\ shOp = "shl_b16"
    /\ layout = "low_first"
    /\ shIdx = [hi |-> 0, lo |-> 0]
    /\ shInput = <<0, 0>>
    /\ shOutput = 0
    /\ shResult = Ok

ShiftInit ==
    /\ shPc = "start"
    /\ shOp \in ShiftOps
    /\ layout \in Layouts
    /\ shIdx \in ShiftIndices
    /\ shInput = <<0, 0>>
    /\ shOutput = 0
    /\ shResult = Ok

\* the scan's step for one index: the input is generated from the index
Shift_Generate ==
    /\ shPc = "start"
    /\ shInput' = ShiftGenerate(layout, shIdx)
    /\ shPc' = "generated"
    /\ UNCHANGED <<shOp, layout, shIdx, shOutput, shResult, runVars, sinVars>>

\* the device returns some 16 bits
Shift_Launch ==
    /\ shPc = "generated"
    /\ shOutput' \in ShiftOutputs(shInput)
    /\ shPc' = "launched"
    /\ UNCHANGED <<shOp, layout, shIdx, shInput, shResult, runVars, sinVars>>

\* host_verify(input, output)
Shift_HostVerify ==
    /\ shPc = "launched"
    /\ shResult' = shift_host_verify(shOp, shInput, shOutput)
    /\ shPc' = "verified"
    /\ UNCHANGED <<shOp, layout, shIdx, shInput, shOutput, runVars, sinVars>>

-----------------------------------------------------------------------------
(* The specifications *)

Init == RunInit /\ SinIdle /\ ShiftIdle

Next ==
    \/ Run_SortTests
    \/ Run_ListPrint
    \/ Run_Filter
    \/ Run_CudaInit
    \/ Run_CallTest
    \/ Direct_PrepareSource
    \/ Nvrtc_CreateProgram
    \/ Nvrtc_CompileProgram
    \/ Nvrtc_CompileFailed
    \/ Nvrtc_GetPTX
    \/ Test_LoadModule
    \/ Test_ScanStep
    \/ Test_ScanDone
    \/ Run_Report
    \/ Run_Return

Spec == Init /\ [][Next]_vars

SinSpecInit == RunIdle /\ SinInit /\ ShiftIdle

SinNext == Sin_Generate \/ Sin_PickInput \/ Sin_Launch \/ Sin_HostVerify

SinSpec == SinSpecInit /\ [][SinNext]_vars

ShiftSpecInit == RunIdle /\ SinIdle /\ ShiftInit

ShiftNext == Shift_Generate \/ Shift_Launch \/ Shift_HostVerify

ShiftSpec == ShiftSpecInit /\ [][ShiftNext]_vars

-----------------------------------------------------------------------------
(* Properties of one invocation (Spec) *)

\* the registered tests the invocation selects: all of them, or those the filter matches
Selected ==
    {n \in Range(registry) : ~args.filter.given \/ IsMatch(args.filter.pat, n)}

\* the executed tests that reported Mismatch or Miscompile
FailedTests == {j \in DOMAIN done : done[j].outcome \in {"Mismatch", "Miscompile"}}

\* C1: when run reaches the end of the test loop and returns, the exit code is the
\* number of executed tests whose outcome was Mismatch or Miscompile; the executed
\* tests are the selected ones, so a filtered-out test and an Ok test add nothing.
C1_ExitCodeCountsFailures ==
    (proc = "returned" /\ args.cmd = "Run") =>
        /\ exitCode = Cardinality(FailedTests)
        /\ {done[j].name : j \in DOMAIN done} = Selected
        /\ Len(done) = Cardinality(Selected)

\* C1's case: a returned run with a filter that excluded a registered test, one
\* test Ok and one failed
C1_Witness ==
    /\ proc = "returned"
    /\ args.cmd = "Run"
    /\ args.filter.given
    /\ Cardinality(Selected) < Len(registry)
    /\ \E j \in DOMAIN done : done[j].outcome = "Ok"
    /\ \E j \in DOMAIN done : done[j].outcome = "Miscompile"
    /\ exitCode = 1

\* the entries of `done` for the test named n
DoneOf(n) == {j \in DOMAIN done : done[j].name = n}

\* C2: with the Compiled backend, the build step of a test whose source
\* nvrtcCompileProgram rejected does not exit the process, and the test finishes as
\* Miscompile carrying its own name with no input evaluated. (A panic of one of the
\* unwrap()s that query the log is a fault of the compiler itself, and is left out.)
C2_RejectedSourceIsMiscompile ==
    \A n \in rejected :
        /\ proc # "exited"
        /\ \A j \in DoneOf(n) : done[j].outcome = "Miscompile" /\ done[j].evaluated = 0

\* the result lines printed for the test named n
LinesOf(n) ==
    {j \in DOMAIN stdout :
        stdout[j].name = n /\ stdout[j].kind \in {"OK", "FAIL_Input", "FAIL_Compilation_mismatch"}}

\* C3: in a run that ended by returning or by a process::exit, every selected test
\* has printed exactly one result line (and no test ever has more than one).
C3_OneLinePerSelectedTest ==
    /\ \A n \in Range(registry) : Cardinality(LinesOf(n)) <= 1
    /\ (args.cmd = "Run" /\ proc \in {"returned", "exited"}) =>
           \A n \in Selected : Cardinality(LinesOf(n)) = 1

\* strictly ascending by name
Ascending(s) == \A a, b \in DOMAIN s : a < b => StrLess(s[a], s[b])

\* the names of the lines printed so far
PrintedNames == [j \in DOMAIN stdout |-> stdout[j].name]

\* C4: the names listed and the tests executed come in ascending lexical order of
\* name; run executes only selected tests, and all of them, in that order, when it
\* returns; list executes nothing, prints every registered name and returns 0.
C4_AscendingNameOrder ==
    /\ Ascending(executed)
    /\ Ascending(PrintedNames)
    /\ Range(executed) \subseteq Selected
    /\ (args.cmd = "Run" /\ proc = "returned") => Range(executed) = Selected
    /\ args.cmd = "List" => executed = <<>>
    /\ (args.cmd = "List" /\ proc = "returned") =>
           /\ exitCode = 0
           /\ Range(PrintedNames) = Range(registry)
           /\ Len(stdout) = Len(registry)

\* C4's case: tests registered out of order, a filter that drops one and keeps two,
\* and the run complete
C4_Witness ==
    /\ args.cmd = "Run"
    /\ proc = "returned"
    /\ args.filter.given
    /\ Len(registry) = 3
    /\ StrLess(registry[3], registry[2])
    /\ StrLess(registry[2], registry[1])
    /\ Len(executed) = 2

\* C9: when the Compiled build step has ended, by returning or by ending the process,
\* its program handle has been destroyed and no host buffer of it is still allocated.
C9_ProgramReleasedOnEveryPath ==
    buildEnded \in {"returned", "exited"} => (program = "destroyed" /\ hostBufs = {})

-----------------------------------------------------------------------------
(* Properties of the sine test (SinSpec) *)

ZeroOfSign(f) == F32(f.s, 0, 0)

\* the inputs the special-value policy names
IsSpecialInput(f) == IsNan(f) \/ IsInfinite(f) \/ IsZero(f) \/ IsSubnormal(f)

\* C5 as claimed: with ftz, the decision for a subnormal device output is the
\* decision for the zero of the same sign.
C5_SubnormalOutputDecidedAsZero ==
    (sinPc = "verified" /\ ftz /\ IsSubnormal(sinOutput)) =>
        sinResult.ok = host_verify(TRUE, sinInput, ZeroOfSign(sinOutput)).ok

\* C5 amended: with ftz, the input is flushed before the dispatch and the expected
\* value before the comparison, and the device output is compared as it was returned:
\* for a special input a subnormal output is rejected and the value reported is the
\* flushed expected value (a NaN or a zero), while the zero of a zero or subnormal
\* input's sign is accepted.
C5_FlushesInputAndExpectedNotOutput ==
    (sinPc = "verified" /\ ftz /\ IsSpecialInput(sinInput)) =>
        /\ IsSubnormal(sinOutput) =>
               /\ ~sinResult.ok
               /\ IsNan(sinResult.expected) \/ IsZero(sinResult.expected)
        /\ (IsZero(sinInput) \/ IsSubnormal(sinInput)) =>
               (sinResult.ok <=> sinOutput = ZeroOfSign(sinInput))

\* C5's case: ftz, a subnormal input and the subnormal output of the same sign, rejected
C5_Witness ==
    /\ sinPc = "verified"
    /\ ftz
    /\ IsSubnormal(sinInput)
    /\ IsSubnormal(sinOutput)
    /\ sinOutput.s = sinInput.s
    /\ ~sinResult.ok
    /\ sinResult.expected = ZeroOfSign(sinInput)

\* C6: with and without ftz, an infinite or NaN input is accepted iff the output is
\* a NaN; a -0 or negative subnormal input iff the output is exactly -0; a +0 or
\* positive subnormal input iff the output is exactly +0; the value reported on
\* rejection is a NaN, -0 and +0 respectively.
C6_SpecialInputsExact ==
    sinPc = "verified" =>
        /\ (IsInfinite(sinInput) \/ IsNan(sinInput)) =>
               /\ sinResult.ok <=> IsNan(sinOutput)
               /\ ~sinResult.ok => IsNan(sinResult.expected)
        /\ ((IsZero(sinInput) \/ IsSubnormal(sinInput)) /\ sinInput.s = 1) =>
               /\ sinResult.ok <=> sinOutput = F32_NEG_ZERO
               /\ ~sinResult.ok => sinResult.expected = F32_NEG_ZERO
        /\ ((IsZero(sinInput) \/ IsSubnormal(sinInput)) /\ sinInput.s = 0) =>
               /\ sinResult.ok <=> sinOutput = F32_ZERO
               /\ ~sinResult.ok => sinResult.expected = F32_ZERO

\* C6's case: -0 in, +0 out, rejected with -0 reported
C6_Witness ==
    /\ sinPc = "verified"
    /\ sinInput = F32_NEG_ZERO
    /\ sinOutput = F32_ZERO
    /\ sinResult = Err(F32_NEG_ZERO)

\* the 32 bits of an f32 with a clear sign bit, as a number
BitsOf(f) == f.e * Pow2(23) + f.m

\* the seven named edge cases, by what they are
EdgeClass(f) ==
    CASE IsNan(f) -> "nan"
      [] IsInfinite(f) /\ f.s = 1 -> "neg_infinity"
      [] IsInfinite(f) /\ f.s = 0 -> "infinity"
      [] IsSubnormal(f) /\ f.s = 1 -> "neg_subnormal"
      [] IsSubnormal(f) /\ f.s = 0 -> "subnormal"
      [] IsZero(f) /\ f.s = 1 -> "neg_zero"
      [] IsZero(f) /\ f.s = 0 -> "zero"
      [] OTHER -> "normal"

EdgeClasses ==
    {"neg_infinity", "neg_subnormal", "neg_zero", "zero", "subnormal", "infinity", "nan"}

\* C8: generate yields an f32 for every index below MAX_VALUE with no overflow; an
\* index up to the bits of pi/2 yields the f32 with those bits; each of the seven
\* edge cases is generated by an index past the bits of pi/2 and below MAX_VALUE.
C8_DomainTotalWithEdgeCases ==
    (sinPc = "generated" /\ sinIdx >= 0) =>
        /\ sinIdx < SIN_MAX_VALUE
        /\ ~sinOvf
        /\ sinInput \in [s : 0..1, e : 0..255, m : 0..(Pow2(23) - 1)]
        /\ sinIdx <= RANGE_MAX_BITS => (sinInput.s = 0 /\ BitsOf(sinInput) = sinIdx)
        /\ \A c \in EdgeClasses :
               \E j \in (RANGE_MAX_BITS + 1)..(SIN_MAX_VALUE - 1) :
                   EdgeClass(SinGenerate(j).val) = c

\* C8's case: the last contiguous index has been generated, as pi/2
C8_Witness ==
    /\ sinPc = "generated"
    /\ sinIdx = RANGE_MAX_BITS
    /\ sinInput = F32_FRAC_PI_2

-----------------------------------------------------------------------------
(* Properties of the shift tests (ShiftSpec) *)

Bit(v, j) == (v \div Pow2(j)) % 2

\* bit j of the reference result: for a shift below 16 the bit the shift moves
\* there (0, or the sign for shr.s16, where none is), for a shift of 16 and more 0,
\* or the sign for shr.s16
RefBit(op, v, s, j) ==
    IF s >= 16 THEN (IF op = "shr_s16" THEN Bit(v, 15) ELSE 0)
    ELSE IF op = "shl_b16" THEN (IF j >= s THEN Bit(v, j - s) ELSE 0)
    ELSE IF j + s <= 15 THEN Bit(v, j + s)
    ELSE IF op = "shr_s16" THEN Bit(v, 15) ELSE 0

RECURSIVE RefFrom(_, _, _, _)
RefFrom(op, v, s, j) ==
    IF j > 15 THEN 0 ELSE RefBit(op, v, s, j) * Pow2(j) + RefFrom(op, v, s, j + 1)

\* the reference result, from its bits
RefShift(op, v, s) == RefFrom(op, v, s, 0)

\* C7: a shift verifier accepts the output iff it is the reference result bit for
\* bit, and reports the reference on rejection.
C7_ShiftExactReference ==
    shPc = "verified" =>
        /\ shResult.ok <=> shOutput = RefShift(shOp, shInput[1], shInput[2])
        /\ ~shResult.ok => shResult.expected = RefShift(shOp, shInput[1], shInput[2])

\* C7's case: shr.s16 of 0xFFFF by 20, the device answering 0 where the sign fill
\* 0xFFFF is expected
C7_Witness ==
    /\ shPc = "verified"
    /\ shOp = "shr_s16"
    /\ shInput = <<65535, 20>>
    /\ shOutput = 0
    /\ shResult = Err(65535)

\* C10: generate maps the indices one to one onto the (value, shift) pairs: no other
\* index yields the pair an index yields, and every pair is yielded by some index.
C10_GenerateIsBijection ==
    shPc = "generated" =>
        /\ shInput \in U16Samples \X U16Samples
        /\ \A j \in ShiftIndices : ShiftGenerate(layout, j) = shInput => j = shIdx
        /\ \A v, s \in U16Samples : \E j \in ShiftIndices : ShiftGenerate(layout, j) = <<v, s>>

\* C10's case: an index whose pair has a shift count of 16 or more
C10_Witness ==
    /\ shPc = "generated"
    /\ shInput = <<4660, 17>>
    /\ shIdx.hi # shIdx.lo

====
